---- MODULE Spec2Model ----
(***************************************************************************)
(* The draft-registration manager component (initialisation task, autosave *)
(* task, submit task, page getters) and the file-list validator of         *)
(* ember-osf-web, as state machines.                                       *)
(*                                                                         *)
(* JavaScript values: an optional value is <<>> (undefined) or <<x>>; a    *)
(* response mapping is a function over RespKeys whose absent keys map to   *)
(* NoValue; an array is a sequence read through ArrayGet (0-indexed, any   *)
(* index outside 0..length-1 reads undefined).                             *)
(***************************************************************************)
EXTENDS Integers, Sequences, FiniteSets, TLC

\* ------------------------------------------------------------- bounds
MaxBlocks == 3
MaxInputs == 2
MaxSubmits == 1
MaxFiles == 3

\* ------------------------------------------------------------- values
Undefined == <<>>
Some(x) == <<x>>
NoValue == "undefined"

Keys == {"q1", "q2"}
Headings == {"h1", "h2"}
LiteralKey == "registrationResponseKey"
RespKeys == Keys \cup {LiteralKey}
Values == {"new"}
EmptyResponses == [k \in RespKeys |-> NoValue]

\* The values currentPage can take: unset, or a number; the getters are
\* checked for each of them, from a negative number to one past the longest
\* schema's last page.
PageNumbers == (0 - 1) .. (MaxBlocks + 1)
CurrentPages == {Undefined} \cup {Some(p) : p \in PageNumbers}

\* The values the router drives currentPage to while the tasks run: unset
\* (before the route has a page), and the 1-indexed page numbers up to the
\* number of headings, which is past the last page of the shorter schemas.
RoutedPages == {Undefined} \cup {Some(p) : p \in 1..Cardinality(Headings)}

\* ------------------------------------------------------------- schema blocks
HeadingBlock(h) == [blockType |-> "page-heading", id |-> h]
LabelBlock(k) == [blockType |-> "label", id |-> k]
BlockAlphabet == {HeadingBlock(h) : h \in Headings} \cup {LabelBlock(k) : k \in Keys}

BlockSeqs == UNION {[1..n -> BlockAlphabet] : n \in 0..MaxBlocks}

\* A schema lists each heading and each question once, in id order.
RECURSIVE IdsOf(_, _)
IdsOf(blocks, type) ==
    IF blocks = <<>> THEN <<>>
    ELSE IF Head(blocks).blockType = type
         THEN <<Head(blocks).id>> \o IdsOf(Tail(blocks), type)
         ELSE IdsOf(Tail(blocks), type)

Ascending(ids, order) ==
    \A i \in 1..Len(ids) : ids[i] = order[i]

Schemas ==
    {s \in BlockSeqs :
        /\ Len(IdsOf(s, "page-heading")) <= Cardinality(Headings)
        /\ Len(IdsOf(s, "label")) <= Cardinality(Keys)
        /\ Ascending(IdsOf(s, "page-heading"), <<"h1", "h2">>)
        /\ Ascending(IdsOf(s, "label"), <<"q1", "q2">>)}

\* The draft's responses as the server returns them: unanswered, or answered.
DraftResponseChoices ==
    {EmptyResponses, [k \in RespKeys |-> IF k \in Keys THEN "old" ELSE NoValue]}

\* ------------------------------------------------------------- getPages
RECURSIVE GetPagesFrom(_, _)
GetPagesFrom(blocks, pages) ==
    IF blocks = <<>> THEN pages
    ELSE LET b == Head(blocks) IN
         IF b.blockType = "page-heading" \/ pages = <<>>
         THEN GetPagesFrom(Tail(blocks), Append(pages, <<b>>))
         ELSE GetPagesFrom(Tail(blocks),
                           [pages EXCEPT ![Len(pages)] = Append(@, b)])

getPages(blocks) == GetPagesFrom(blocks, <<>>)

\* ------------------------------------------------------------- PageManager
IsLabel(b) == b.blockType = "label"

GroupKeys(groups) == {groups[i].registrationResponseKey : i \in 1..Len(groups)}

PageIsValid(groups, changeSet) ==
    \A k \in GroupKeys(groups) : changeSet[k] # NoValue

NewPageManager(pageSchemaBlocks, responses) ==
    LET labels == SelectSeq(pageSchemaBlocks, IsLabel)
        groups == [i \in 1..Len(labels) |-> [registrationResponseKey |-> labels[i].id]]
        changeSet == [k \in Keys |-> IF k \in GroupKeys(groups) THEN responses[k] ELSE NoValue]
    IN  [pageHeadingText |-> IF Head(pageSchemaBlocks).blockType = "page-heading"
                             THEN Head(pageSchemaBlocks).id ELSE NoValue,
         schemaBlockGroups |-> groups,
         changeSet |-> changeSet,
         pageIsValid |-> PageIsValid(groups, changeSet)]

ChangeSetSet(pm, key, value) ==
    LET cs == [pm.changeSet EXCEPT ![key] = value]
    IN  [pm EXCEPT !.changeSet = cs, !.pageIsValid = PageIsValid(pm.schemaBlockGroups, cs)]

getPageParam(pageNumber, pageHeadingText) == <<pageNumber, pageHeadingText>>

\* ------------------------------------------------------------- state
VARIABLES
    draft,                \* the external draft resource: blocks, registrationResponses
    initState,            \* position of the initializePageManagers task instance
    draftRegistration,    \* the component's draftRegistration property
    lastPage,
    registrationResponses,
    pageManagers,
    currentPage,          \* set by the router
    updateRouteCalls,     \* the heading texts updateRoute was called with
    onInputTimers,        \* onInput instances waiting on timeout(500), oldest first:
                          \* for each, the page displayed when it was performed,
                          \* if one was (history, not program state)
    autoSaving,           \* onInput instances awaiting draftRegistration.save()
    onInputLast,          \* how the last finished onInput instance ended
    submitSaving,         \* submitDraftRegistration instances awaiting save()
    submitLast,           \* how the last finished submitDraftRegistration instance ended
    submitted,            \* a submitDraftRegistration instance completed
    vState, vNode, vValue, vResult   \* the validator's call

mgrVars == <<draft, initState, draftRegistration, lastPage, registrationResponses,
             pageManagers, currentPage, updateRouteCalls, onInputTimers, autoSaving,
             onInputLast, submitSaving, submitLast, submitted>>
valVars == <<vState, vNode, vValue, vResult>>
vars == <<mgrVars, valVars>>

\* ------------------------------------------------------------- getters
ArrayGet(arr, index) ==
    IF index \in 0..(Len(arr) - 1) THEN Some(arr[index + 1]) ELSE Undefined

\* JavaScript's a >= b and a > b with b possibly undefined (then false).
JsGe(a, b) == b # Undefined /\ a >= b[1]
JsGt(a, b) == a # Undefined /\ a[1] > b

CurrentPageManagerAtPageIndex(pms, page) ==
    IF JsGe(Len(pms), page) THEN ArrayGet(pms, page[1]) ELSE Undefined

CurrentPageManagerOf(pms, page) ==
    IF JsGe(Len(pms), page) THEN ArrayGet(pms, page[1] - 1) ELSE Undefined

currentPageManager == CurrentPageManagerOf(pageManagers, currentPage)

isValid == \A i \in 1..Len(pageManagers) : pageManagers[i].pageIsValid

\* The result of a getter that may throw: a page param, or a TypeError.
EmptyString == [page |-> 0, text |-> ""]
Returned(param) == [threw |-> FALSE, param |-> param]
TypeError == [threw |-> TRUE, param |-> EmptyString]

NextPageIndex(page) == page
PrevPageIndex(page) == page - 2

NextPageParamOf(pms, last, page) ==
    IF Len(pms) # 0 /\ last # page
    THEN LET pm == IF page = Undefined THEN Undefined
                   ELSE ArrayGet(pms, NextPageIndex(page[1]))
         IN  IF pm = Undefined THEN TypeError
             ELSE Returned(getPageParam(page[1] + 1, pm[1].pageHeadingText))
    ELSE Returned(EmptyString)

PrevPageParamOf(pms, page) ==
    IF Len(pms) # 0 /\ JsGt(page, 1)
    THEN LET pm == ArrayGet(pms, PrevPageIndex(page[1]))
         IN  IF pm = Undefined THEN TypeError
             ELSE Returned(getPageParam(page[1] - 1, pm[1].pageHeadingText))
    ELSE Returned(EmptyString)

nextPageParam == NextPageParamOf(pageManagers, lastPage, currentPage)
prevPageParam == PrevPageParamOf(pageManagers, currentPage)

\* ------------------------------------------------------------- Init
ValidatorIdle ==
    /\ vState = "unused"
    /\ vNode = Undefined
    /\ vValue = Undefined
    /\ vResult = Undefined

ManagerCreated(drafts, pages) ==
    /\ draft \in drafts
    /\ initState = "awaitModel"
    /\ draftRegistration = Undefined
    /\ lastPage = Undefined
    /\ registrationResponses = EmptyResponses
    /\ pageManagers = <<>>
    /\ currentPage \in pages
    /\ updateRouteCalls = <<>>
    /\ onInputTimers = <<>>
    /\ autoSaving = 0
    /\ onInputLast = "none"
    /\ submitSaving = 0
    /\ submitLast = "none"
    /\ submitted = FALSE

Init ==
    /\ ManagerCreated([blocks : Schemas, registrationResponses : DraftResponseChoices],
                      RoutedPages)
    /\ ValidatorIdle

\* ------------------------------------------------------------- initializePageManagers
ModelResolves ==
    /\ initState = "awaitModel"
    /\ draftRegistration' = Some("draft")
    /\ initState' = "awaitSchema"
    /\ UNCHANGED <<draft, lastPage, registrationResponses, pageManagers, currentPage,
                   updateRouteCalls, onInputTimers, autoSaving, onInputLast,
                   submitSaving, submitLast, submitted, valVars>>

SchemaResolves ==
    /\ initState = "awaitSchema"
    /\ initState' = "awaitBlocks"
    /\ UNCHANGED <<draft, draftRegistration, lastPage, registrationResponses, pageManagers,
                   currentPage, updateRouteCalls, onInputTimers, autoSaving, onInputLast,
                   submitSaving, submitLast, submitted, valVars>>

LastPageOfLastIndex(pages) == Some(Len(pages) - 1)

LastPageOf(pages) == Some(Len(pages))

BuildPageManagers(pages, responses) ==
    [i \in 1..Len(pages) |-> NewPageManager(pages[i], responses)]

RouteNotifications(pms) ==
    IF Len(pms) # 0 THEN <<pms[1].pageHeadingText>> ELSE <<>>

BlocksLoaded ==
    /\ initState = "awaitBlocks"
    /\ LET pages == getPages(draft.blocks)
           responses == draft.registrationResponses
           pms == BuildPageManagers(pages, responses)
       IN  /\ lastPage' = LastPageOf(pages)
           /\ registrationResponses' = responses
           /\ updateRouteCalls' = updateRouteCalls \o RouteNotifications(pms)
           /\ pageManagers' = pms
    /\ initState' = "done"
    /\ UNCHANGED <<draft, draftRegistration, currentPage, onInputTimers, autoSaving,
                   onInputLast, submitSaving, submitLast, submitted, valVars>>

\* A rejected yield throws inside the generator: the task instance ends with
\* that error and nothing after the yield runs.
FetchFails ==
    /\ initState \in {"awaitModel", "awaitSchema", "awaitBlocks"}
    /\ initState' = "error"
    /\ UNCHANGED <<draft, draftRegistration, lastPage, registrationResponses, pageManagers,
                   currentPage, updateRouteCalls, onInputTimers, autoSaving, onInputLast,
                   submitSaving, submitLast, submitted, valVars>>

\* ------------------------------------------------------------- router, fields
SetCurrentPage(page) ==
    /\ currentPage' = page
    /\ currentPage' # currentPage
    /\ UNCHANGED <<draft, initState, draftRegistration, lastPage, registrationResponses,
                   pageManagers, updateRouteCalls, onInputTimers, autoSaving, onInputLast,
                   submitSaving, submitLast, submitted, valVars>>

\* A field of the displayed page stages a value in that page's change-set.
StageValue(key, value) ==
    /\ currentPageManager # Undefined
    /\ key \in GroupKeys(currentPageManager[1].schemaBlockGroups)
    /\ currentPageManager[1].changeSet[key] # value
    /\ pageManagers' = [pageManagers EXCEPT
                            ![currentPage[1]] = ChangeSetSet(@, key, value)]
    /\ UNCHANGED <<draft, initState, draftRegistration, lastPage, registrationResponses,
                   currentPage, updateRouteCalls, onInputTimers, autoSaving, onInputLast,
                   submitSaving, submitLast, submitted, valVars>>

\* ------------------------------------------------------------- onInput
\* The task has no concurrency modifier: performing it starts a new instance
\* beside the running ones.
Perform(waiting, instance) == Append(waiting, instance)

PerformOnInput ==
    /\ Len(onInputTimers) + autoSaving < MaxInputs
    /\ onInputTimers' = Perform(onInputTimers,
                                IF currentPageManager # Undefined
                                THEN currentPage ELSE Undefined)
    /\ UNCHANGED <<draft, initState, draftRegistration, lastPage, registrationResponses,
                   pageManagers, currentPage, updateRouteCalls, autoSaving, onInputLast,
                   submitSaving, submitLast, submitted, valVars>>

RECURSIVE MergeGroups(_, _, _)
MergeGroups(responses, groups, changeset) ==
    IF groups = <<>> THEN responses
    ELSE MergeGroups([responses EXCEPT ![LiteralKey] =
                          changeset[Head(groups).registrationResponseKey]],
                     Tail(groups), changeset)

AutosaveGuard(pm) == pm # Undefined

\* The timer fires with save() called after the if block instead of inside it.
TimerFiresSavingOutsideIf ==
    /\ onInputTimers # <<>>
    /\ onInputTimers' = Tail(onInputTimers)
    /\ IF AutosaveGuard(currentPageManager)
       THEN LET merged == MergeGroups(registrationResponses,
                                      currentPageManager[1].schemaBlockGroups,
                                      currentPageManager[1].changeSet)
            IN  /\ registrationResponses' = merged
                /\ draft' = [draft EXCEPT !.registrationResponses = merged]
       ELSE UNCHANGED <<registrationResponses, draft>>
    /\ IF draftRegistration # Undefined
       THEN autoSaving' = autoSaving + 1 /\ UNCHANGED onInputLast
       ELSE onInputLast' = "error" /\ UNCHANGED autoSaving
    /\ UNCHANGED <<initState, draftRegistration, lastPage, pageManagers, currentPage,
                   updateRouteCalls, submitSaving, submitLast, submitted, valVars>>

\* Timers of equal length fire in the order they were armed.
TimerFires ==
    /\ onInputTimers # <<>>
    /\ onInputTimers' = Tail(onInputTimers)
    /\ IF AutosaveGuard(currentPageManager)
       THEN LET merged == MergeGroups(registrationResponses,
                                      currentPageManager[1].schemaBlockGroups,
                                      currentPageManager[1].changeSet)
            IN  /\ registrationResponses' = merged
                /\ draft' = [draft EXCEPT !.registrationResponses = merged]
                /\ autoSaving' = autoSaving + 1
                /\ UNCHANGED onInputLast
       ELSE /\ onInputLast' = "ok"
            /\ UNCHANGED <<registrationResponses, draft, autoSaving>>
    /\ UNCHANGED <<initState, draftRegistration, lastPage, pageManagers, currentPage,
                   updateRouteCalls, submitSaving, submitLast, submitted, valVars>>

AutosaveResolves ==
    /\ autoSaving > 0
    /\ autoSaving' = autoSaving - 1
    /\ onInputLast' = "ok"
    /\ UNCHANGED <<draft, initState, draftRegistration, lastPage, registrationResponses,
                   pageManagers, currentPage, updateRouteCalls, onInputTimers,
                   submitSaving, submitLast, submitted, valVars>>

AutosaveRejects ==
    /\ autoSaving > 0
    /\ autoSaving' = autoSaving - 1
    /\ onInputLast' = "error"
    /\ UNCHANGED <<draft, initState, draftRegistration, lastPage, registrationResponses,
                   pageManagers, currentPage, updateRouteCalls, onInputTimers,
                   submitSaving, submitLast, submitted, valVars>>

\* ------------------------------------------------------------- submitDraftRegistration
\* Before the model resolves, this.draftRegistration is undefined and the call
\* of save() on it throws.
PerformSubmit ==
    /\ submitSaving < MaxSubmits
    /\ IF draftRegistration = Undefined
       THEN /\ submitLast' = "error"
            /\ UNCHANGED submitSaving
       ELSE /\ submitSaving' = submitSaving + 1
            /\ UNCHANGED submitLast
    /\ UNCHANGED <<draft, initState, draftRegistration, lastPage, registrationResponses,
                   pageManagers, currentPage, updateRouteCalls, onInputTimers, autoSaving,
                   onInputLast, submitted, valVars>>

SubmitResolves ==
    /\ submitSaving > 0
    /\ submitSaving' = submitSaving - 1
    /\ submitLast' = "ok"
    /\ submitted' = TRUE
    /\ UNCHANGED <<draft, initState, draftRegistration, lastPage, registrationResponses,
                   pageManagers, currentPage, updateRouteCalls, onInputTimers, autoSaving,
                   onInputLast, valVars>>

SubmitRejectsLikeResolves ==
    /\ submitSaving > 0
    /\ submitSaving' = submitSaving - 1
    /\ submitLast' = "error"
    /\ submitted' = TRUE
    /\ UNCHANGED <<draft, initState, draftRegistration, lastPage, registrationResponses,
                   pageManagers, currentPage, updateRouteCalls, onInputTimers, autoSaving,
                   onInputLast, valVars>>

SubmitRejects ==
    /\ submitSaving > 0
    /\ submitSaving' = submitSaving - 1
    /\ submitLast' = "error"
    /\ UNCHANGED <<draft, initState, draftRegistration, lastPage, registrationResponses,
                   pageManagers, currentPage, updateRouteCalls, onInputTimers, autoSaving,
                   onInputLast, submitted, valVars>>

Next ==
    \/ ModelResolves
    \/ SchemaResolves
    \/ BlocksLoaded
    \/ FetchFails
    \/ \E page \in RoutedPages : SetCurrentPage(page)
    \/ \E key \in Keys, value \in Values : StageValue(key, value)
    \/ PerformOnInput
    \/ TimerFires
    \/ AutosaveResolves
    \/ AutosaveRejects
    \/ PerformSubmit
    \/ SubmitResolves
    \/ SubmitRejects

Spec == Init /\ [][Next]_vars

\* ------------------------------------------------------------- validateFileList
\* A project p with components n and s; n has a component c.
NodeIds == {"p", "n", "s", "c"}
ParentOf == [id \in NodeIds |->
                CASE id = "p" -> NoValue
                  [] id = "n" -> "p"
                  [] id = "s" -> "p"
                  [] id = "c" -> "n"]
IsRoot(id) == ParentOf[id] = NoValue

RECURSIVE IsDescendantOf(_, _)
IsDescendantOf(id, ancestor) ==
    /\ ParentOf[id] # NoValue
    /\ \/ ParentOf[id] = ancestor
       \/ IsDescendantOf(ParentOf[id], ancestor)

FileNames == <<"A", "B", "C", "D", "E">>

\* What a reload of the file will find: the file gone, or the node it is on.
ServerStates == {"gone"} \cup NodeIds

FileLists ==
    UNION {[1..n -> ServerStates] : n \in 0..MaxFiles}

LocalFile(i, onServer) ==
    [name |-> FileNames[i], isError |-> FALSE, target |-> NoValue, onServer |-> onServer]

Reload(file) ==
    IF file.onServer = "gone"
    THEN [file EXCEPT !.isError = TRUE]
    ELSE [file EXCEPT !.isError = FALSE, !.target = file.onServer]

IsDeleted(file) == file.isError

IsDetached(file, nodeId) == ~file.isError /\ file.target # nodeId

\* The two lists the loop over newValue builds, in the files' order.
RECURSIVE DeletedNames(_)
DeletedNames(files) ==
    IF files = <<>> THEN <<>>
    ELSE (IF IsDeleted(Head(files)) THEN <<Head(files).name>> ELSE <<>>)
         \o DeletedNames(Tail(files))

RECURSIVE DetachedNames(_, _)
DetachedNames(files, nodeId) ==
    IF files = <<>> THEN <<>>
    ELSE (IF IsDetached(Head(files), nodeId) THEN <<Head(files).name>> ELSE <<>>)
         \o DetachedNames(Tail(files), nodeId)

Message(kind, names, nodeId) ==
    [kind |-> kind, names |-> names,
     projectOrComponent |-> IF IsRoot(nodeId) THEN "project" ELSE "component"]

ResultTrue == [isTrue |-> TRUE, errors |-> <<>>]

ValidationResult(files, nodeId) ==
    LET detachedFiles == DetachedNames(files, nodeId)
        deletedFiles == DeletedNames(files)
        validationErrors ==
            (IF detachedFiles # <<>>
             THEN <<Message("detached", detachedFiles, nodeId)>> ELSE <<>>)
            \o (IF deletedFiles # <<>>
                THEN <<Message("deleted", deletedFiles, nodeId)>> ELSE <<>>)
    IN  IF validationErrors = <<>> THEN ResultTrue
        ELSE [isTrue |-> FALSE, errors |-> validationErrors]

ManagerIdle ==
    ManagerCreated({[blocks |-> <<>>, registrationResponses |-> EmptyResponses]},
                   {Undefined})

InitValidator ==
    /\ ManagerIdle
    /\ vState = "created"
    /\ vNode \in {Undefined} \cup {Some(id) : id \in NodeIds}
    /\ vValue \in {Undefined} \cup
                  {Some([i \in DOMAIN l |-> LocalFile(i, l[i])]) : l \in FileLists}
    /\ vResult = Undefined

\* The returned function is called: without a value or a node it returns true,
\* otherwise it starts reloading every file.
ValidatorCalled ==
    /\ vState = "created"
    /\ IF vValue # Undefined /\ vNode # Undefined
       THEN /\ vState' = "reloading"
            /\ UNCHANGED vResult
       ELSE /\ vState' = "done"
            /\ vResult' = Some(ResultTrue)
    /\ UNCHANGED <<vNode, vValue, mgrVars>>

\* allSettled resolves once every reload has succeeded or failed.
ReloadsSettled ==
    /\ vState = "reloading"
    /\ LET files == [i \in DOMAIN vValue[1] |-> Reload(vValue[1][i])]
       IN  /\ vValue' = Some(files)
           /\ vResult' = Some(ValidationResult(files, vNode[1]))
    /\ vState' = "done"
    /\ UNCHANGED <<vNode, mgrVars>>

NextValidator ==
    \/ ValidatorCalled
    \/ ReloadsSettled

SpecValidator == InitValidator /\ [][NextValidator]_vars

\* ============================================================= properties

\* C1: at no time is more than one not-yet-fired autosave pending (a new
\* onInput cancels the one scheduled before it).
C1_AtMostOnePendingAutosave ==
    Len(onInputTimers) <= 1

\* C2: when a timer fires with a current page manager, every key of the
\* current page's groups holds the change-set's value afterwards, every other
\* key of registrationResponses is unchanged, and the draft is handed that
\* mapping.
C2_AutosaveMergesPerKey ==
    [][(Len(onInputTimers') < Len(onInputTimers) /\ autoSaving' > autoSaving) =>
         LET pm == currentPageManager[1]
             pageKeys == GroupKeys(pm.schemaBlockGroups)
         IN  /\ \A k \in pageKeys : registrationResponses'[k] = pm.changeSet[k]
             /\ \A k \in RespKeys \ pageKeys :
                    registrationResponses'[k] = registrationResponses[k]
             /\ draft'.registrationResponses = registrationResponses']_vars

\* C3: once initialization has completed for a schema of k pages, lastPage is
\* k, pageManagers holds the k page managers in page order,
\* registrationResponses is the draft's mapping, and updateRoute has been
\* called once with page 1's heading text if k >= 1 and never if k = 0,
\* whatever has run since.
C3_InitializationResult ==
    initState = "done" =>
        LET pages == getPages(draft.blocks)
            k == Len(pages)
        IN  /\ lastPage = Some(k)
            /\ Len(pageManagers) = k
            /\ \A i \in 1..k :
                 LET fresh == NewPageManager(pages[i], EmptyResponses)
                 IN  /\ pageManagers[i].schemaBlockGroups = fresh.schemaBlockGroups
                     /\ pageManagers[i].pageHeadingText = fresh.pageHeadingText
            /\ registrationResponses = draft.registrationResponses
            /\ updateRouteCalls =
                 IF k >= 1
                 THEN <<NewPageManager(pages[1], EmptyResponses).pageHeadingText>>
                 ELSE <<>>

C3_Witness ==
    /\ initState = "done"
    /\ lastPage = Some(2)
    /\ currentPage = Some(2)
    /\ onInputLast = "ok"
    /\ submitted
    /\ registrationResponses[LiteralKey] # NoValue

\* C4: after a failed initialization, draftRegistration and lastPage (with
\* registrationResponses and pageManagers) are either all still unset or all
\* assigned: never the first assigned from the draft while the others are at
\* their values from before the initialization.
C4_NoPartialStateAfterFailure ==
    initState = "error" =>
        /\ (draftRegistration = Undefined) <=> (lastPage = Undefined)
        /\ (draftRegistration = Undefined) => pageManagers = <<>>

\* C5: for every number currentPage can be, nextPageParam is getPageParam of
\* page currentPage + 1 and its heading when that page exists and the empty
\* string when it does not, prevPageParam likewise for page currentPage - 1,
\* and neither getter reads pageManagers outside 0..length-1.
PageExists(n) == n \in 1..Len(pageManagers)

ParamOfPage(n) ==
    IF PageExists(n)
    THEN Returned(getPageParam(n, pageManagers[n].pageHeadingText))
    ELSE Returned(EmptyString)

C5_AdjacentPageParams ==
    \A page \in PageNumbers :
        /\ NextPageParamOf(pageManagers, lastPage, Some(page)) = ParamOfPage(page + 1)
        /\ PrevPageParamOf(pageManagers, Some(page)) = ParamOfPage(page - 1)
        /\ (Len(pageManagers) # 0 /\ lastPage # Some(page))
              => NextPageIndex(page) \in 0..(Len(pageManagers) - 1)
        /\ (Len(pageManagers) # 0 /\ page > 1)
              => PrevPageIndex(page) \in 0..(Len(pageManagers) - 1)

\* C6: in every reachable state and for every value of currentPage (unset,
\* zero and negative included), currentPageManager is undefined iff
\* currentPage is outside 1..pageManagers.length, and is the page manager at
\* index currentPage - 1 otherwise.
PageInRange(page) == page # Undefined /\ page[1] \in 1..Len(pageManagers)

C6_CurrentPageManager ==
    /\ currentPage \in CurrentPages
    /\ \A page \in CurrentPages :
         LET pm == CurrentPageManagerOf(pageManagers, page)
         IN  /\ (pm = Undefined) <=> ~PageInRange(page)
             /\ PageInRange(page) => pm = Some(pageManagers[page[1]])

C6_Witness ==
    /\ initState = "done"
    /\ Len(pageManagers) = 2
    /\ currentPage = Some(2)
    /\ currentPageManager = Some(pageManagers[2])
    /\ CurrentPageManagerOf(pageManagers, Some(3)) = Undefined
    /\ CurrentPageManagerOf(pageManagers, Some(0)) = Undefined

\* C7: no onInput instance merges into registrationResponses, hands them to
\* the draft or calls save() before initializePageManagers has completed.
C7_NoAutosaveBeforeInitialized ==
    [][(/\ Len(onInputTimers') < Len(onInputTimers)
        /\ \/ autoSaving' # autoSaving
           \/ registrationResponses' # registrationResponses
           \/ draft' # draft)
       => (initState = "done" /\ pageManagers # <<>>)]_vars

\* An onInput instance performed during the initialization has fired and ended
\* while the initialization still awaits the schema or the blocks.
C7_Witness ==
    /\ initState \in {"awaitSchema", "awaitBlocks"}
    /\ onInputLast = "ok"
    /\ onInputTimers # <<>>

\* C8: a step in which save() rejects, for an autosave or for a submit, leaves
\* currentPage, pageManagers and isValid as they were and does not make the
\* manager Submitted; the instance ends with an error; and afterwards a new
\* submit or a new input still leads to a call of save().
SaveRejected ==
    \/ autoSaving' < autoSaving /\ onInputLast' = "error"
    \/ submitSaving' < submitSaving /\ submitLast' = "error"

RetryPossible ==
    /\ submitSaving < MaxSubmits
         => ENABLED (PerformSubmit /\ submitSaving' = submitSaving + 1)
    /\ Len(onInputTimers) + autoSaving < MaxInputs => ENABLED PerformOnInput
    /\ (onInputTimers # <<>> /\ currentPageManager # Undefined)
         => ENABLED (TimerFires /\ autoSaving' = autoSaving + 1)

C8_SaveFailureIsNotFatal ==
    /\ [][SaveRejected =>
            /\ UNCHANGED <<currentPage, pageManagers>>
            /\ isValid' = isValid
            /\ submitted' = submitted]_vars
    /\ []((onInputLast = "error" \/ (submitLast = "error" /\ draftRegistration # Undefined))
            => RetryPossible)

C8_Witness ==
    /\ initState = "done"
    /\ onInputLast = "error"
    /\ submitLast = "error"
    /\ ~submitted
    /\ ~isValid
    /\ autoSaving = 1
    /\ submitSaving = 1

\* C9: after the reloads, a file whose reload failed is deleted only, a loaded
\* file on neither the node nor one of its descendants is detached, any other
\* file is neither; the result is true iff both classes are empty, else one
\* message per non-empty class (detached first) naming that class's files;
\* without a node or a value the result is true.
ClaimedDetached(file, nodeId) ==
    /\ ~file.isError
    /\ file.target # nodeId
    /\ ~IsDescendantOf(file.target, nodeId)

RECURSIVE ClaimedDetachedNames(_, _)
ClaimedDetachedNames(files, nodeId) ==
    IF files = <<>> THEN <<>>
    ELSE (IF ClaimedDetached(Head(files), nodeId) THEN <<Head(files).name>> ELSE <<>>)
         \o ClaimedDetachedNames(Tail(files), nodeId)

ClaimedResult(files, nodeId) ==
    LET detached == ClaimedDetachedNames(files, nodeId)
        deleted == DeletedNames(files)
    IN  IF detached = <<>> /\ deleted = <<>> THEN ResultTrue
        ELSE [isTrue |-> FALSE,
              errors |-> (IF detached # <<>>
                          THEN <<Message("detached", detached, nodeId)>> ELSE <<>>)
                         \o (IF deleted # <<>>
                             THEN <<Message("deleted", deleted, nodeId)>> ELSE <<>>)]

C9_FileListClassification ==
    vState = "done" =>
        vResult = IF vValue # Undefined /\ vNode # Undefined
                  THEN Some(ClaimedResult(vValue[1], vNode[1]))
                  ELSE Some(ResultTrue)

\* C10: an autosave that fires and saves, for an onInput performed on a
\* displayed page, merges the change-set of that page, also when currentPage
\* has changed since.
C10_AutosaveMergesInputPage ==
    [][(/\ Len(onInputTimers') < Len(onInputTimers)
        /\ autoSaving' > autoSaving
        /\ Head(onInputTimers) # Undefined)
       => Head(onInputTimers) = currentPage]_vars

====
